---- MODULE Spec2Model ----
(***************************************************************************)
(* Storefront cart page and checkout (Cart component), with the Cart Store *)
(* it drives and the backend tables it reads and writes.                   *)
(*                                                                         *)
(* Money is counted in thousandths of a currency unit, so that the         *)
(* two-decimal rounding of toFixed(2) is a real operation.  Text the code  *)
(* trims or matches against a pattern is a sequence of one-character       *)
(* strings; text it only tests for emptiness is a string.                  *)
(***************************************************************************)
EXTENDS Integers, Sequences, FiniteSets, TLC

\* ------------------------------------------------------------------ bounds
\* Largest quantity the plus button is followed to.
MaxQty == 2
\* Number of order ids the orders table can hand out.
MaxOrders == 1
\* Number of handleSubmit invocations that can be suspended at an await.
MaxInFlight == 2

\* One currency unit, in thousandths.
Unit == 10 * 10 * 10

\* ------------------------------------------------------------------- text
IsSpace(c) == c = " "

RECURSIVE TrimStart(_)
TrimStart(s) ==
    IF s = <<>> THEN <<>>
    ELSE IF IsSpace(Head(s)) THEN TrimStart(Tail(s)) ELSE s

RECURSIVE TrimEnd(_)
TrimEnd(s) ==
    IF s = <<>> THEN <<>>
    ELSE IF IsSpace(s[Len(s)]) THEN TrimEnd(SubSeq(s, 1, Len(s) - 1)) ELSE s

\* String.prototype.trim
Trim(s) == TrimEnd(TrimStart(s))

Digits == {"0", "1", "2", "3", "4", "5", "6", "7", "8", "9"}

\* The character class of phoneRegex, [0-9+\-\s()]
PhoneChars == Digits \cup {"+", "-", " ", "(", ")"}

\* phoneRegex.test(s) for /^[0-9+\-\s()]+$/
PhoneRegexTest(s) == Len(s) >= 1 /\ \A i \in 1..Len(s) : s[i] \in PhoneChars

\* ------------------------------------------------------------------ money
\* parseFloat(x.toFixed(2)) for x >= 0: the nearest hundredth.
ToFixed2(x) == ((x + 5) \div 10) * 10

RECURSIVE DigitsValue(_)
DigitsValue(ds) ==
    IF ds = <<>> THEN 0
    ELSE 10 * DigitsValue(SubSeq(ds, 1, Len(ds) - 1))
         + (CHOOSE d \in 0..9 : ToString(d) = ds[Len(ds)])

\* parseFloat(item.charge): a numeric column arrives as a number or as its
\* decimal text.
ParseFloat(raw) ==
    IF raw.t = "number" THEN raw.v ELSE DigitsValue(raw.v) * Unit

\* ------------------------------------------------------------- Cart Store
\* removeItem(productId)
removeItem(its, id) == SelectSeq(its, LAMBDA l : l.id # id)

\* updateQuantity(productId, newQuantity)
updateQuantity(its, id, q) ==
    IF q <= 0 THEN removeItem(its, id)
    ELSE [i \in DOMAIN its |->
            IF its[i].id = id THEN [its[i] EXCEPT !.quantity = q] ELSE its[i]]

\* clearCart()
clearCart == <<>>

\* addItem(line)
addItem(its, line) ==
    IF \E i \in DOMAIN its : its[i].id = line.id
    THEN [i \in DOMAIN its |->
            IF its[i].id = line.id
            THEN [its[i] EXCEPT !.quantity = @ + line.quantity]
            ELSE its[i]]
    ELSE Append(its, line)

RECURSIVE totalPrice(_)
\* totalPrice = sum of price * quantity over the lines
totalPrice(its) ==
    IF its = <<>> THEN 0
    ELSE Head(its).price * Head(its).quantity + totalPrice(Tail(its))

RECURSIVE removeAll(_, _)
\* missingItems.forEach(item => removeItem(item.id))
removeAll(its, missing) ==
    IF missing = <<>> THEN its
    ELSE removeAll(removeItem(its, Head(missing).id), Tail(missing))

\* ------------------------------------------------------------------ state
VARIABLES
    items,            \* Cart Store: the cart lines, in insertion order
    loading,          \* busy flag of the cart page
    orderConfirmed,   \* the page's confirmed flag
    orderId,          \* the order id the page holds (0: null)
    formData,         \* name, phone, address, location
    deliveryCharges,  \* inside_dhaka, outside_dhaka
    dcPc,             \* fetchDeliveryCharges: "pending" or "done"
    dcResponse,       \* the reply the delivery_charges query is going to get
    subs,             \* the handleSubmit invocations suspended at an await
    products,         \* backend table products
    orders,           \* backend table orders
    orderItems,       \* backend table order_items
    nextOrderId,      \* the id the next inserted order gets
    toast,            \* the last notification shown
    lastResp,         \* history: the last backend reply handleSubmit consumed
    submitted,        \* history: per order id, what its submission captured
    fbq,              \* window.fbq: "undefined", "ok" or "throws"
    product,          \* ProductDetails: the product shown (NoProduct: null)
    detailLoading,    \* ProductDetails: loading
    quantity,         \* ProductDetails: the selected quantity
    detailFetch,      \* ProductDetails: fetchProduct's position, its queries,
                      \* the reply its first query is going to get, and
                      \* whether it has called navigate('/')
    adds,             \* the handleAddToCart invocations suspended at an await
    homeProducts,     \* Home: products
    filteredProducts, \* Home: filteredProducts
    homeLoading,      \* Home: loading
    currentPage,      \* Home: currentPage
    sortBy,           \* Home: sortBy
    homeFetch,        \* Home: fetchProducts's position, its queries, and
                      \* the reply its first query is going to get
    lastQuery,        \* history: the query of the last handleSearch call
    catalogRows,      \* backend table products as the listing query reads it
    rawImages,        \* the images and image_url columns of the row shown
    imageData,        \* the image_url value a cart line carries
    firstImageUrl     \* what the cart page renders for that line

vars == <<items, loading, orderConfirmed, orderId, formData, deliveryCharges,
          dcPc, dcResponse, subs, products, orders, orderItems, nextOrderId,
          toast, lastResp, submitted, fbq, product,
          detailLoading, quantity, detailFetch, adds, homeProducts,
          filteredProducts, homeLoading, currentPage, sortBy, homeFetch,
          lastQuery, catalogRows, rawImages, imageData, firstImageUrl>>

pageVars == <<loading, orderConfirmed, orderId>>
backendVars == <<products, orders, orderItems, nextOrderId, submitted>>
chargeVars == <<deliveryCharges, dcPc, dcResponse>>
detailVars == <<product, detailLoading, quantity, detailFetch, adds>>
homeVars == <<homeProducts, filteredProducts, homeLoading, currentPage, sortBy,
              homeFetch, lastQuery, catalogRows>>
imageVars == <<imageData, firstImageUrl>>
\* What the cart page's checkout handlers never touch.
otherPages == <<fbq, detailVars, homeVars, rawImages, imageVars>>

\* ---------------------------------------------------------------- catalog
Ids == {"p1", "p2"}
IdSeq == <<"p1", "p2">>
NameOf(id) == IF id = "p1" THEN "A" ELSE "B"
\* The live price of a product; the cart line carries its own snapshot.
LivePrice(id) == IF id = "p1" THEN 11 * Unit ELSE 3 * Unit
\* The price a cart line of the product was added at.
SnapshotPrice(id) == IF id = "p1" THEN 10 * Unit ELSE 2 * Unit

Slots == 1..MaxInFlight
Idle == [pc |-> "idle"]
InFlight(s) == subs[s].pc # "idle"
InFlightSlots == {s \in Slots : InFlight(s)}

Toast(kind) == [kind |-> kind, names |-> <<>>, stocks |-> <<>>]
NoResp == [call |-> "none", outcome |-> "none", data |-> <<>>]
Outcomes == {"ok", "error", "throw"}

\* ------------------------------------------------------------- JS values
\* A value is a record with its type t and its content v; a string also
\* carries what JSON.parse makes of it (json.t = "throws": a SyntaxError).
JsUndefined == [t |-> "undefined", v |-> <<>>]
JsNull == [t |-> "null", v |-> <<>>]
JsNum(n) == [t |-> "number", v |-> n]
JsArr(es) == [t |-> "array", v |-> es]
NotJson == [t |-> "throws", v |-> <<>>]
JsStr(chars) == [t |-> "string", v |-> chars, json |-> NotJson]
JsonStr(chars, parsed) == [t |-> "string", v |-> chars, json |-> parsed]

\* The value as a condition: if (x), x && ..., x ? ... : ...
Truthy(x) ==
    CASE x.t \in {"undefined", "null"} -> FALSE
      [] x.t = "string" -> x.v # <<>>
      [] x.t = "number" -> x.v # 0
      [] OTHER -> TRUE

\* --------------------------------------------------------------- fbpixel
\* fbqTrack(event, data): what became of the call.
fbqTrack(f) ==
    IF f # "undefined"
    THEN IF f = "ok" THEN "sent" ELSE "threw"
    ELSE "warned"

\* ------------------------------------------------------- derived (render)
\* const deliveryCharge = formData.location === 'inside_dhaka' ? ... : ...
deliveryCharge(fd, dc) ==
    IF fd.location = "inside_dhaka" THEN dc.inside_dhaka ELSE dc.outside_dhaka

finalTotalNoChargeAs(its, fd, dc) == totalPrice(its)

\* const finalTotal = totalPrice + deliveryCharge
finalTotal(its, fd, dc) == totalPrice(its) + deliveryCharge(fd, dc)

\* <Button type="submit" disabled={loading}>
SubmitDisabledNeverAs == FALSE

SubmitDisabled == loading

\* The confirmation dialog is part of the non-empty-cart view only.
DialogOpen == orderConfirmed /\ Len(items) > 0

\* ------------------------------------------------ handleSubmit: local part
InvalidLine(l) == l.id = "" \/ l.name = "" \/ l.price <= 0 \/ l.quantity <= 0

Blank(s) == s = <<>> \/ Trim(s) = <<>>

LocalValidationNoPhoneAs(its, fd) ==
    IF Len(its) = 0 THEN "EmptyCart"
    ELSE IF \E i \in DOMAIN its : InvalidLine(its[i]) THEN "InvalidCartLine"
    ELSE IF Blank(fd.name) THEN "NameRequired"
    ELSE IF Blank(fd.phone) THEN "PhoneRequired"
    ELSE IF Blank(fd.address) THEN "AddressRequired"
    ELSE "ok"

\* The checks of handleSubmit before setLoading(true), in the code's order.
LocalValidation(its, fd) ==
    IF Len(its) = 0 THEN "EmptyCart"
    ELSE IF \E i \in DOMAIN its : InvalidLine(its[i]) THEN "InvalidCartLine"
    ELSE IF Blank(fd.name) THEN "NameRequired"
    ELSE IF Blank(fd.phone) THEN "PhoneRequired"
    ELSE IF ~PhoneRegexTest(Trim(fd.phone)) THEN "InvalidPhone"
    ELSE IF Blank(fd.address) THEN "AddressRequired"
    ELSE "ok"

\* The slot a new invocation takes.
FreeSlot(s) == ~InFlight(s) /\ \A t \in Slots : t < s => InFlight(t)

\* handleSubmit, from the submit event to its first await.
handleSubmit ==
    /\ UNCHANGED otherPages
    /\ ~SubmitDisabled
    /\ nextOrderId <= MaxOrders
    /\ \E s \in Slots :
        /\ FreeSlot(s)
        /\ LET v == LocalValidation(items, formData) IN
           IF v # "ok"
           THEN /\ toast' = Toast(v)
                /\ UNCHANGED <<items, pageVars, formData, chargeVars, subs,
                               backendVars, lastResp>>
           ELSE /\ loading' = TRUE
                /\ subs' = [subs EXCEPT ![s] =
                      [pc |-> "awaitProducts",
                       items |-> items,
                       formData |-> formData,
                       deliveryCharge |-> deliveryCharge(formData, deliveryCharges),
                       finalTotal |-> finalTotal(items, formData, deliveryCharges),
                       existingProducts |-> <<>>,
                       orderId |-> 0,
                       why |-> "none"]]
                /\ UNCHANGED <<items, orderConfirmed, orderId, formData,
                               chargeVars, backendVars, toast, lastResp>>

\* --------------------------------------------------- handleSubmit: awaits
\* setLoading(false) of the finally block
FinallyLoadingStuckAs == TRUE

FinallyLoading == FALSE

\* What .from('products').select('id, name, stock, price').in('id', ids)
\* returns: the rows of the listed ids that exist, in table order.
ProductRows(ids) ==
    LET row(i) == [id |-> IdSeq[i], name |-> NameOf(IdSeq[i]),
                   stock |-> products[IdSeq[i]].stock,
                   price |-> LivePrice(IdSeq[i])]
        all == [i \in DOMAIN IdSeq |-> row(i)]
    IN  SelectSeq(all, LAMBDA r : r.id \in ids /\ products[r.id].exists)

LineIds(its) == {its[i].id : i \in DOMAIN its}
RowIds(rows) == {rows[i].id : i \in DOMAIN rows}
RowOf(rows, id) == CHOOSE r \in {rows[i] : i \in DOMAIN rows} : r.id = id

missingItemsAllAs(its, existing) == its

\* items.filter(item => !existingIds.has(item.id))
missingItems(its, existing) ==
    SelectSeq(its, LAMBDA l : l.id \notin RowIds(existing))

outOfStockItemsOrDearerAs(its, existing) ==
    SelectSeq(its, LAMBDA l :
        /\ l.id \in RowIds(existing)
        /\ \/ RowOf(existing, l.id).stock < l.quantity
           \/ RowOf(existing, l.id).price > l.price)

outOfStockItemsLeqAs(its, existing) ==
    SelectSeq(its, LAMBDA l :
        l.id \in RowIds(existing) /\ RowOf(existing, l.id).stock <= l.quantity)

\* The lines pushed to outOfStockItems: product found and stock < quantity.
outOfStockItems(its, existing) ==
    SelectSeq(its, LAMBDA l :
        l.id \in RowIds(existing) /\ RowOf(existing, l.id).stock < l.quantity)

orderItemsRowsLivePriceAs(its, existing, oid) ==
    LET kept == SelectSeq(its, LAMBDA l : l.id \in RowIds(existing))
    IN  {[order_id |-> oid, product_id |-> kept[i].id,
          quantity |-> kept[i].quantity,
          price |-> ToFixed2(RowOf(existing, kept[i].id).price)] : i \in DOMAIN kept}

\* const orderItems = items.filter(...).map(...)
orderItemsRows(its, existing, oid) ==
    LET kept == SelectSeq(its, LAMBDA l : l.id \in RowIds(existing))
    IN  {[order_id |-> oid, product_id |-> kept[i].id,
          quantity |-> kept[i].quantity,
          price |-> ToFixed2(kept[i].price)] : i \in DOMAIN kept}

\* The row of .from('orders').insert({...})
orderRow(sub, oid) ==
    [id |-> oid,
     customer_name |-> Trim(sub.formData.name),
     phone |-> Trim(sub.formData.phone),
     address |-> Trim(sub.formData.address),
     location_type |-> sub.formData.location,
     total_amount |-> ToFixed2(sub.finalTotal),
     status |-> "pending"]

\* The handler returns: its slot is free again and the finally block has run.
End(s) ==
    /\ subs' = [subs EXCEPT ![s] = Idle]
    /\ loading' = FinallyLoading

\* catch (error) { toast.error(...) } finally { setLoading(false) }
Catch(s, kind) ==
    /\ toast' = Toast(kind)
    /\ End(s)

\* The reply to the products query arrives (lines 151-181, and the order
\* insert issued at 183).
ProductsFetched(s) ==
    /\ UNCHANGED otherPages
    /\ subs[s].pc = "awaitProducts"
    /\ \E outcome \in Outcomes :
        LET sub == subs[s]
            existing == IF outcome = "ok" THEN ProductRows(LineIds(sub.items))
                        ELSE <<>>
            missing == missingItems(sub.items, existing)
            short == outOfStockItems(sub.items, existing)
        IN
        /\ lastResp' = [call |-> "products", outcome |-> outcome, data |-> existing]
        /\ IF outcome # "ok"
           THEN /\ Catch(s, IF outcome = "error" THEN "ProductsCheckFailed"
                                                 ELSE "Exception")
                /\ UNCHANGED items
           ELSE IF Len(existing) # Len(sub.items) /\ Len(missing) > 0
           THEN /\ toast' = [kind |-> "ProductsUnavailable",
                             names |-> [i \in DOMAIN missing |-> missing[i].name],
                             stocks |-> <<>>]
                /\ items' = removeAll(items, missing)
                /\ End(s)
           ELSE IF Len(short) > 0
           THEN /\ toast' = [kind |-> "OutOfStock",
                             names |-> [i \in DOMAIN short |->
                                          RowOf(existing, short[i].id).name],
                             stocks |-> [i \in DOMAIN short |->
                                          RowOf(existing, short[i].id).stock]]
                /\ End(s)
                /\ UNCHANGED items
           ELSE /\ subs' = [subs EXCEPT ![s].pc = "awaitOrder",
                                        ![s].existingProducts = existing]
                /\ UNCHANGED <<items, loading, toast>>
    /\ UNCHANGED <<orderConfirmed, orderId, formData, chargeVars, backendVars>>

\* The reply to the orders insert arrives (lines 183-217).
OrderInserted(s) ==
    /\ UNCHANGED otherPages
    /\ subs[s].pc = "awaitOrder"
    /\ \E outcome \in Outcomes :
        LET sub == subs[s]
            oid == nextOrderId
            data == IF outcome = "ok" THEN <<[id |-> oid]>> ELSE <<>>
        IN
        /\ outcome = "ok" => nextOrderId <= MaxOrders
        /\ lastResp' = [call |-> "orders", outcome |-> outcome, data |-> data]
        /\ IF outcome # "ok"
           THEN /\ Catch(s, IF outcome = "error" THEN "OrderCreateFailed"
                                                 ELSE "Exception")
                /\ UNCHANGED <<orders, nextOrderId, submitted>>
           ELSE /\ orders' = orders \cup {orderRow(sub, oid)}
                /\ nextOrderId' = nextOrderId + 1
                /\ submitted' = [submitted EXCEPT ![oid] =
                      [deliveryCharge |-> sub.deliveryCharge,
                       location |-> sub.formData.location]]
                /\ IF data = <<>> \/ data[1].id = 0
                   THEN Catch(s, "OrderIdMissing")
                   ELSE IF orderItemsRows(sub.items, sub.existingProducts, oid) = {}
                   THEN /\ subs' = [subs EXCEPT ![s].pc = "awaitDelete",
                                                ![s].orderId = oid,
                                                ![s].why = "NoValidProducts"]
                        /\ UNCHANGED <<loading, toast>>
                   ELSE /\ subs' = [subs EXCEPT ![s].pc = "awaitItems",
                                                ![s].orderId = oid]
                        /\ UNCHANGED <<loading, toast>>
    /\ UNCHANGED <<items, orderConfirmed, orderId, formData, chargeVars,
                   products, orderItems>>

\* The reply to the order_items insert arrives (lines 215-227).
ItemsInserted(s) ==
    /\ UNCHANGED otherPages
    /\ subs[s].pc = "awaitItems"
    /\ \E outcome \in Outcomes :
        LET sub == subs[s] IN
        /\ lastResp' = [call |-> "order_items", outcome |-> outcome, data |-> <<>>]
        /\ IF outcome = "ok"
           THEN /\ orderItems' = orderItems \cup
                      orderItemsRows(sub.items, sub.existingProducts, sub.orderId)
                /\ orderId' = sub.orderId
                /\ orderConfirmed' = TRUE
                /\ items' = clearCart
                /\ toast' = Toast("Success")
                /\ End(s)
           ELSE IF outcome = "error"
           THEN /\ subs' = [subs EXCEPT ![s].pc = "awaitDelete",
                                        ![s].why = "OrderItemsInsertFailed"]
                /\ UNCHANGED <<orderItems, orderId, orderConfirmed, items,
                               toast, loading>>
           ELSE /\ Catch(s, "Exception")
                /\ UNCHANGED <<orderItems, orderId, orderConfirmed, items>>
    /\ UNCHANGED <<formData, chargeVars, products, orders, nextOrderId, submitted>>

\* The reply to the compensating delete arrives; its error is not looked at
\* (lines 211-212 and 220-221).
OrderDeleted(s) ==
    /\ UNCHANGED otherPages
    /\ subs[s].pc = "awaitDelete"
    /\ \E outcome \in Outcomes :
        LET sub == subs[s] IN
        /\ lastResp' = [call |-> "delete", outcome |-> outcome, data |-> <<>>]
        /\ orders' = IF outcome = "ok"
                     THEN {o \in orders : o.id # sub.orderId}
                     ELSE orders
        /\ Catch(s, IF outcome = "throw" THEN "Exception" ELSE sub.why)
    /\ UNCHANGED <<items, orderConfirmed, orderId, formData, chargeVars,
                   products, orderItems, nextOrderId, submitted>>

\* ----------------------------------------------------- cart page buttons
\* Number of rows a delivery_charges reply holds at most.
MaxChargeRows == 2

restOfPage == <<pageVars, formData, chargeVars, subs, backendVars, toast, lastResp,
                otherPages>>

MinusKeepsLineAs ==
    /\ ~DialogOpen
    /\ \E i \in DOMAIN items : items' = [items EXCEPT ![i].quantity = @ - 1]
    /\ UNCHANGED restOfPage

\* Minus button: updateQuantity(item.id, item.quantity - 1)
Minus ==
    /\ ~DialogOpen
    /\ \E i \in DOMAIN items :
        items' = updateQuantity(items, items[i].id, items[i].quantity - 1)
    /\ UNCHANGED restOfPage

\* Plus button: fbqTrack("AddToCart", ...); updateQuantity(item.id, item.quantity + 1)
Plus ==
    /\ ~DialogOpen
    /\ \E i \in DOMAIN items :
        /\ items[i].quantity < MaxQty
        /\ items' = IF fbqTrack(fbq) = "threw" THEN items
                     ELSE updateQuantity(items, items[i].id, items[i].quantity + 1)
    /\ UNCHANGED restOfPage

\* Trash button: removeItem(item.id)
Remove ==
    /\ ~DialogOpen
    /\ \E i \in DOMAIN items : items' = removeItem(items, items[i].id)
    /\ UNCHANGED restOfPage

\* ------------------------------------------------------------ form inputs
FormNames == {<<>>, <<" ">>, <<" ", "A">>}
FormPhones == {<<>>, <<" ">>, <<"(", "+", "0", ")", " ", "1", "-", "2", " ">>,
               <<"0", "x", "1">>}
FormAddresses == {<<>>, <<" ", " ">>, <<"R", " ">>}
Locations == {"inside_dhaka", "outside_dhaka"}

\* onChange of the name, phone and address inputs
ChangeField ==
    /\ \/ \E v \in FormNames : formData' = [formData EXCEPT !.name = v]
       \/ \E v \in FormPhones : formData' = [formData EXCEPT !.phone = v]
       \/ \E v \in FormAddresses : formData' = [formData EXCEPT !.address = v]
    /\ formData' # formData
    /\ UNCHANGED <<items, pageVars, chargeVars, subs, backendVars, toast, lastResp,
                   otherPages>>

\* onValueChange of the location radio group
ChangeLocation ==
    /\ \E v \in Locations :
        /\ v # formData.location
        /\ formData' = [formData EXCEPT !.location = v]
    /\ UNCHANGED <<items, pageVars, chargeVars, subs, backendVars, toast, lastResp,
                   otherPages>>

\* ------------------------------------------------------- delivery charges
DefaultCharges == [inside_dhaka |-> 60 * Unit, outside_dhaka |-> 120 * Unit]

RECURSIVE ApplyRows(_, _)
\* data.forEach(item => { if (item.location_type === ...) charges[...] = parseFloat(item.charge) })
ApplyRows(charges, rows) ==
    IF rows = <<>> THEN charges
    ELSE LET r == Head(rows)
             next == IF r.location_type = "inside_dhaka"
                     THEN [charges EXCEPT !.inside_dhaka = ParseFloat(r.charge)]
                     ELSE IF r.location_type = "outside_dhaka"
                     THEN [charges EXCEPT !.outside_dhaka = ParseFloat(r.charge)]
                     ELSE charges
         IN  ApplyRows(next, Tail(rows))

ChargesFromRowsSwappedAs(rows) ==
    LET c == ApplyRows(DefaultCharges, rows)
    IN  [inside_dhaka |-> c.outside_dhaka, outside_dhaka |-> c.inside_dhaka]

\* The charges object built from a non-empty reply, starting from 60 / 120.
ChargesFromRows(rows) == ApplyRows(DefaultCharges, rows)

\* fetchDeliveryCharges, from the reply on: an error or an exception is
\* logged, an empty reply does nothing.
fetchDeliveryCharges ==
    /\ dcPc = "pending"
    /\ dcPc' = "done"
    /\ deliveryCharges' =
          IF dcResponse.outcome = "ok" /\ Len(dcResponse.data) > 0
          THEN ChargesFromRows(dcResponse.data)
          ELSE deliveryCharges
    /\ UNCHANGED <<items, pageVars, formData, dcResponse, subs, backendVars,
                   toast, lastResp, otherPages>>

\* ------------------------------------------------------------------- Init
\* Sequences over S of length at most n.
RECURSIVE SeqsUpTo(_, _)
SeqsUpTo(S, n) ==
    IF n = 0 THEN {<<>>}
    ELSE LET shorter == SeqsUpTo(S, n - 1)
         IN  shorter \cup {Append(q, x) : q \in shorter, x \in S}

\* The lines the Cart Store can hold for a product of the catalog.
StoreLines(id) ==
    {[id |-> id, name |-> NameOf(id), price |-> SnapshotPrice(id),
      quantity |-> q] : q \in 1..MaxQty}

\* The carts the store can hold: at most one line per product.
StoreCarts ==
    {<<>>}
    \cup {<<l>> : l \in StoreLines("p1") \cup StoreLines("p2")}
    \cup {<<l, m>> : l \in StoreLines("p1"), m \in StoreLines("p2")}

\* The products table: a product is absent, or present with a stock of 1
\* (short of every larger quantity) or a stock that covers every quantity.
Catalogs ==
    {c \in [Ids -> [exists : BOOLEAN, stock : {0, 1, MaxQty}]] :
        \A id \in Ids : c[id].exists <=> c[id].stock > 0}

FilledForm(loc) ==
    [name |-> <<" ", "A">>, phone |-> <<"0", "1", " ">>,
     address |-> <<"R", " ">>, location |-> loc]

\* useState initial values of formData
EmptyForm == [name |-> <<>>, phone |-> <<>>, address |-> <<>>,
              location |-> "inside_dhaka"]

ChargeRow == [location_type : Locations \cup {"sylhet"},
              charge : {[t |-> "number", v |-> 80 * Unit],
                        [t |-> "string", v |-> <<"9", "5">>]}]

\* Every reply of the delivery_charges query.
ChargeReplies ==
    {[outcome |-> o, data |-> <<>>] : o \in Outcomes}
    \cup {[outcome |-> "ok", data |-> d] : d \in SeqsUpTo(ChargeRow, MaxChargeRows)}

\* The reply followed through a checkout: an override of the outside charge.
CheckoutChargeReply ==
    [outcome |-> "ok", data |-> <<[location_type |-> "outside_dhaka",
                                   charge |-> [t |-> "number", v |-> 150 * Unit]]>>]

\* useState initial values of ProductDetails; no fetchProduct running.
NoProduct == [id |-> ""]
NoFetch == [pc |-> "unmounted", id |-> "", queries |-> 0,
            plan |-> [outcome |-> "none", message |-> <<>>], used |-> "none",
            navigated |-> FALSE]
DetailUnmounted ==
    /\ product = NoProduct
    /\ detailLoading = TRUE
    /\ quantity = 1
    /\ detailFetch = NoFetch
    /\ adds = [a \in Slots |-> Idle]

NoQuery == [called |-> FALSE, query |-> <<>>]

\* useState initial values of Home; no fetchProducts running.
HomeUnmounted ==
    /\ homeProducts = <<>>
    /\ filteredProducts = <<>>
    /\ homeLoading = TRUE
    /\ currentPage = 1
    /\ sortBy = "priority"
    /\ homeFetch = NoFetch
    /\ lastQuery = NoQuery
    /\ catalogRows = <<>>

\* No cart line image rendered.
Unrendered == [t |-> "unrendered", v |-> <<>>]
NoImageRendered ==
    /\ imageData = JsNull
    /\ firstImageUrl = Unrendered

NoRawImages == [images |-> JsUndefined, image_url |-> JsNull]

\* The cart page alone on screen, the pixel loaded.
CartPageAlone ==
    /\ fbq = "ok"
    /\ DetailUnmounted
    /\ HomeUnmounted
    /\ rawImages = NoRawImages
    /\ NoImageRendered

\* The page after mount, whatever the cart, the form and the backend hold.
InitPage ==
    /\ loading = FALSE
    /\ orderConfirmed = FALSE
    /\ orderId = 0
    /\ deliveryCharges = DefaultCharges
    /\ dcPc = "pending"
    /\ subs = [s \in Slots |-> Idle]
    /\ orders = {}
    /\ orderItems = {}
    /\ nextOrderId = 1
    /\ toast = Toast("none")
    /\ lastResp = NoResp
    /\ submitted = [o \in 1..MaxOrders |-> [deliveryCharge |-> 0,
                                            location |-> "none"]]

\* Checkout: a stored cart, a filled form, any catalog.
Init ==
    /\ InitPage
    /\ CartPageAlone
    /\ items \in StoreCarts
    /\ formData \in {FilledForm(loc) : loc \in Locations}
    /\ dcResponse = CheckoutChargeReply
    /\ products \in Catalogs

Next ==
    \/ handleSubmit
    \/ \E s \in Slots : ProductsFetched(s)
    \/ \E s \in Slots : OrderInserted(s)
    \/ \E s \in Slots : ItemsInserted(s)
    \/ \E s \in Slots : OrderDeleted(s)
    \/ Minus
    \/ Plus
    \/ Remove
    \/ fetchDeliveryCharges

Spec == Init /\ [][Next]_vars

\* The local checks of handleSubmit, from every cart the durable store can
\* hand back and every form content.
LocalLines == [id : {"", "p1"}, name : {"", "A"}, price : {0 - Unit, 0, 10 * Unit},
               quantity : {0, 1}]
GoodLine == [id |-> "p2", name |-> "B", price |-> 2 * Unit, quantity |-> 1]
LocalCarts ==
    {<<>>} \cup {<<l>> : l \in LocalLines} \cup {<<GoodLine, l>> : l \in LocalLines}

InitLocal ==
    /\ InitPage
    /\ CartPageAlone
    /\ items \in LocalCarts
    /\ formData = EmptyForm
    /\ dcResponse = CheckoutChargeReply
    /\ products = [id \in Ids |-> [exists |-> TRUE, stock |-> MaxQty]]

NextLocal ==
    \/ handleSubmit
    \/ ChangeField
    \/ ChangeLocation

SpecLocal == InitLocal /\ [][NextLocal]_vars

\* The delivery charge lookup, under every reply.
InitCharges ==
    /\ InitPage
    /\ CartPageAlone
    /\ items = <<GoodLine>>
    /\ formData = FilledForm("inside_dhaka")
    /\ dcResponse \in ChargeReplies
    /\ products = [id \in Ids |-> [exists |-> TRUE, stock |-> MaxQty]]

NextCharges ==
    \/ fetchDeliveryCharges
    \/ ChangeLocation

SpecCharges == InitCharges /\ [][NextCharges]_vars

\* Checkout with every issued backend call answered: the awaits resume.
Fairness ==
    \A s \in Slots :
        /\ WF_vars(ProductsFetched(s))
        /\ WF_vars(OrderInserted(s))
        /\ WF_vars(ItemsInserted(s))
        /\ WF_vars(OrderDeleted(s))

\* Checkout followed to its end: a stored cart, the form filled for delivery
\* outside Dhaka, product p1 missing or with one unit in stock, and p2 in
\* full stock.
InitFair ==
    /\ InitPage
    /\ CartPageAlone
    /\ items \in StoreCarts
    /\ formData = FilledForm("outside_dhaka")
    /\ dcResponse = CheckoutChargeReply
    /\ products \in {c \in Catalogs : c["p1"].stock <= 1 /\ c["p2"].stock = MaxQty}

FairSpec == InitFair /\ [][Next]_vars /\ Fairness

\* ======================================================= ProductDetails
\* Quantity a cart line reaches through handleAddToCart at most.
MaxLineQty == 3

\* String.prototype.includes, over texts as sequences (of characters, or of
\* the words of an error message).
Includes(s, sub) ==
    \E i \in 0..(Len(s) - Len(sub)) : \A j \in 1..Len(sub) : s[i + j] = sub[j]

\* error.message values of a failed products query, as words.
ErrorMessages ==
    {<<>>, <<"priority">>, <<"images">>, <<"column">>,
     <<"does", "not", "exist">>, <<"does", "exist">>, <<"JWT", "expired">>}

\* fetchProduct: the error messages that lead to the narrow query.
retryDetail(m) ==
    \/ Includes(m, <<"images">>)
    \/ Includes(m, <<"column">>)
    \/ Includes(m, <<"does", "not", "exist">>)

\* img && typeof img === 'string' && img.trim()
ValidEntry(img) == Truthy(img) /\ img.t = "string" /\ Trim(img.v) # <<>>

\* s && s.trim(), for a string s
NonBlank(s) == Truthy(s) /\ Trim(s.v) # <<>>

\* fetchProduct: let images, after the parsing of data.images.
parseImagesDetail(raw) ==
    IF raw.t \in {"undefined", "null"} THEN JsUndefined
    ELSE IF raw.t = "string"
    THEN IF raw.json.t = "throws"
         THEN IF NonBlank(raw) THEN JsArr(<<raw>>) ELSE JsUndefined
         ELSE IF raw.json.t = "array"
         THEN JsArr(SelectSeq(raw.json.v, ValidEntry))
         ELSE IF NonBlank(raw) THEN JsArr(<<raw>>) ELSE JsUndefined
    ELSE IF raw.t = "array" THEN JsArr(SelectSeq(raw.v, ValidEntry))
    ELSE JsUndefined

\* if ((!images || images.length === 0) && image_url && image_url.trim())
\*   images = [image_url]
withImageUrl(images, image_url) ==
    IF (~Truthy(images) \/ Len(images.v) = 0) /\ NonBlank(image_url)
    THEN JsArr(<<image_url>>)
    ELSE images

\* images: images && images.length > 0 ? images : undefined
storedImages(images) ==
    IF Truthy(images) /\ Len(images.v) > 0 THEN images ELSE JsUndefined

\* images: row.image_url ? [row.image_url] : undefined  (narrow query)
fallbackImages(image_url) ==
    IF Truthy(image_url) THEN JsArr(<<image_url>>) ELSE JsUndefined

\* The products row of id as select('*') returns it.
DetailRow(id) ==
    [id |-> id, name |-> NameOf(id), price |-> SnapshotPrice(id),
     stock |-> products[id].stock,
     images |-> rawImages.images, image_url |-> rawImages.image_url]

\* fetchProduct has ended: finally { setLoading(false) }
detailDone(used) ==
    /\ detailLoading' = FALSE
    /\ detailFetch' = [detailFetch EXCEPT !.pc = "done", !.used = used]

\* catch: toast.error(...), navigate('/'); finally { setLoading(false) }
detailCatch ==
    /\ toast' = Toast("ProductLoadFailed")
    /\ detailLoading' = FALSE
    /\ detailFetch' = [detailFetch EXCEPT !.pc = "done", !.used = "none",
                                          !.navigated = TRUE]
    /\ UNCHANGED product

detailRest == <<items, pageVars, formData, chargeVars, subs, backendVars,
                lastResp, fbq, homeVars, rawImages, imageVars>>

\* fetchProduct: the reply to the select('*') query arrives.
ProductFirstReply ==
    /\ detailFetch.pc = "first"
    /\ LET reply == detailFetch.plan IN
       IF reply.outcome = "ok"
       THEN /\ LET data == DetailRow(detailFetch.id) IN
               product' = [data EXCEPT !.images =
                   storedImages(withImageUrl(parseImagesDetail(data.images),
                                             data.image_url))]
            /\ detailDone("full")
            /\ UNCHANGED toast
       ELSE IF reply.outcome = "error" /\ retryDetail(reply.message)
       THEN /\ detailFetch' = [detailFetch EXCEPT !.pc = "fallback",
                                                  !.queries = @ + 1]
            /\ UNCHANGED <<product, detailLoading, toast>>
       ELSE detailCatch
    /\ UNCHANGED <<detailRest, quantity, adds>>

\* fetchProduct: the reply to the narrow query arrives.
ProductFallbackReply ==
    /\ detailFetch.pc = "fallback"
    /\ \/ /\ products[detailFetch.id].exists
          /\ LET data == DetailRow(detailFetch.id) IN
             product' = [data EXCEPT !.images = fallbackImages(data.image_url)]
          /\ detailDone("narrow")
          /\ UNCHANGED toast
       \/ \E outcome \in {"error", "throw"} : detailCatch
    /\ UNCHANGED <<detailRest, quantity, adds>>

\* The page shows the product (neither the spinner nor "not found"), and
\* has not been left for the catalog.
ProductShown == ~detailLoading /\ product # NoProduct /\ ~detailFetch.navigated

\* Quantity selector, minus: setQuantity(Math.max(1, quantity - 1))
QtyMinus ==
    /\ ProductShown
    /\ product.stock > 0
    /\ quantity > 1
    /\ quantity' = IF quantity - 1 > 1 THEN quantity - 1 ELSE 1
    /\ UNCHANGED <<detailRest, toast, product, detailLoading, detailFetch, adds>>

\* Quantity selector, plus: setQuantity(Math.min(stock, quantity + 1))
QtyPlus ==
    /\ ProductShown
    /\ product.stock > 0
    /\ quantity < product.stock
    /\ quantity' = IF quantity + 1 < product.stock THEN quantity + 1
                   ELSE product.stock
    /\ UNCHANGED <<detailRest, toast, product, detailLoading, detailFetch, adds>>

\* The quantity of product id in the cart, and in the running additions.
CartQty(its, id) ==
    IF \E i \in DOMAIN its : its[i].id = id
    THEN (CHOOSE l \in {its[i] : i \in DOMAIN its} : l.id = id).quantity
    ELSE 0
RECURSIVE SumQty(_, _)
SumQty(S, f) ==
    IF S = {} THEN 0
    ELSE LET a == CHOOSE x \in S : TRUE IN f[a] + SumQty(S \ {a}, f)
PendingQty == SumQty(Slots, [a \in Slots |->
                  IF adds[a].pc = "idle" THEN 0 ELSE adds[a].quantity])

\* handleAddToCart, from the click to its first await (getIPAddress).
handleAddToCart ==
    /\ ProductShown
    /\ product.stock > 0
    /\ CartQty(items, product.id) + PendingQty + quantity <= MaxLineQty
    /\ \E a \in Slots :
        /\ adds[a].pc = "idle" /\ \A b \in Slots : b < a => adds[b].pc # "idle"
        /\ adds' = [adds EXCEPT ![a] =
              [pc |-> "awaitIp", product |-> product, quantity |-> quantity]]
    /\ UNCHANGED <<detailRest, toast, product, detailLoading, quantity,
                   detailFetch>>

\* The ipify reply arrives, or its failure is caught ('Unknown'): either
\* way the user_activity insert is issued.
IpReplied(a) ==
    /\ adds[a].pc = "awaitIp"
    /\ \E outcome \in {"ok", "throw"} :
        adds' = [adds EXCEPT ![a].pc = "awaitInsert"]
    /\ UNCHANGED <<detailRest, toast, product, detailLoading, quantity,
                   detailFetch>>

addUnitsOnceAs(its, line, n) == addItem(its, line)

RECURSIVE addUnits(_, _, _)
\* for (let i = 0; i < quantity; i++) addItem({ ..., quantity: 1 })
addUnits(its, line, n) ==
    IF n <= 0 THEN its ELSE addUnits(addItem(its, line), line, n - 1)

\* The user_activity insert returns (its error is not read) or throws (caught):
\* the units are added, the notice shown.
ActivityInserted(a) ==
    /\ adds[a].pc = "awaitInsert"
    /\ \E outcome \in Outcomes :
        LET p == adds[a].product
            line == [id |-> p.id, name |-> p.name, price |-> p.price,
                     quantity |-> 1]
        IN  /\ items' = addUnits(items, line, adds[a].quantity)
            /\ toast' = Toast("AddedToCart")
            /\ adds' = [adds EXCEPT ![a] = Idle]
    /\ UNCHANGED <<pageVars, formData, chargeVars, subs, backendVars, lastResp,
                   fbq, homeVars, rawImages, imageVars, product, detailLoading,
                   quantity, detailFetch>>

\* The replies a products query can get: rows, an error, an exception.
OkReply == [outcome |-> "ok", message |-> <<>>]
Replies ==
    {OkReply, [outcome |-> "throw", message |-> <<>>]}
    \cup {[outcome |-> "error", message |-> m] : m \in ErrorMessages}

\* fetchProduct at its first await, for the product page of id.
MountedDetail(id, reply) ==
    [pc |-> "first", id |-> id, queries |-> 1, plan |-> reply, used |-> "none",
     navigated |-> FALSE]

\* The product page of id after fetchProduct loaded it with select('*').
LoadedDetail(id) ==
    /\ product = [DetailRow(id) EXCEPT !.images =
          storedImages(withImageUrl(parseImagesDetail(rawImages.images),
                                    rawImages.image_url))]
    /\ detailLoading = FALSE
    /\ detailFetch = [MountedDetail(id, OkReply) EXCEPT !.pc = "done",
                                                        !.used = "full"]

\* A product page with its product loaded, next to the cart page of a cart
\* that is empty or holds the other product; every product in stock.
InitShop ==
    /\ InitPage
    /\ formData = FilledForm("inside_dhaka")
    /\ dcResponse = CheckoutChargeReply
    /\ products = [id \in Ids |-> [exists |-> TRUE, stock |-> MaxQty]]
    /\ fbq \in {"undefined", "ok", "throws"}
    /\ rawImages = NoRawImages
    /\ \E id \in Ids :
          /\ LoadedDetail(id)
          /\ items \in {<<>>} \cup {<<l>> : l \in StoreLines(CHOOSE o \in Ids : o # id)}
    /\ quantity = 1
    /\ adds = [a \in Slots |-> Idle]
    /\ HomeUnmounted
    /\ NoImageRendered

NextShop ==
    \/ QtyMinus
    \/ QtyPlus
    \/ handleAddToCart
    \/ \E a \in Slots : IpReplied(a)
    \/ \E a \in Slots : ActivityInserted(a)
    \/ Minus
    \/ Plus
    \/ Remove

SpecShop == InitShop /\ [][NextShop]_vars

\* The backend answers the user_activity insert; nothing is assumed of the
\* ipify request.
FairShop ==
    InitShop /\ [][NextShop]_vars /\ \A a \in Slots : WF_vars(ActivityInserted(a))

\* Every writer of the Cart Store: the product page of p1, the cart page's
\* buttons and its checkout, from an empty cart.
InitStore ==
    /\ InitShop
    /\ items = <<>>
    /\ fbq = "ok"
    /\ detailFetch.id = "p1"

NextStore ==
    \/ QtyMinus
    \/ QtyPlus
    \/ handleAddToCart
    \/ \E a \in Slots : IpReplied(a)
    \/ \E a \in Slots : ActivityInserted(a)
    \/ Minus
    \/ Plus
    \/ Remove
    \/ handleSubmit
    \/ \E s \in Slots : ProductsFetched(s)
    \/ \E s \in Slots : OrderInserted(s)
    \/ \E s \in Slots : ItemsInserted(s)
    \/ \E s \in Slots : OrderDeleted(s)

SpecStore == InitStore /\ [][NextStore]_vars

\* ================================================================= Home
\* const ITEMS_PER_PAGE = 12
ITEMS_PER_PAGE == 12

\* Number of products the listing holds at most.
MaxItems == 25

retryListingNeverAs(m) == FALSE

\* fetchProducts: the error messages that lead to the narrow query.
retryListing(m) ==
    \/ Includes(m, <<"priority">>)
    \/ Includes(m, <<"images">>)
    \/ Includes(m, <<"column">>)
    \/ Includes(m, <<"does", "not", "exist">>)

parseImagesListingArraysOnlyAs(raw) ==
    IF raw.t = "string" /\ raw.json.t = "array"
    THEN JsArr(SelectSeq(raw.json.v, ValidEntry))
    ELSE IF raw.t = "array" THEN JsArr(SelectSeq(raw.v, ValidEntry))
    ELSE JsUndefined

\* fetchProducts: let images, after the parsing of p.images.
parseImagesListing(raw) ==
    IF raw.t \in {"undefined", "null"} THEN JsUndefined
    ELSE IF raw.t = "string"
    THEN IF raw.json.t = "throws"
         THEN IF NonBlank(raw) THEN JsArr(<<raw>>) ELSE JsUndefined
         ELSE IF raw.json.t = "array"
         THEN JsArr(SelectSeq(raw.json.v, ValidEntry))
         ELSE JsArr(SelectSeq(<<raw>>, NonBlank))
    ELSE IF raw.t = "array" THEN JsArr(SelectSeq(raw.v, ValidEntry))
    ELSE JsUndefined

\* p.priority ?? 999
priorityOr999(pr) == IF pr.t \in {"undefined", "null"} THEN JsNum(999) ELSE pr

\* The product fetchProducts stores for row p of the select('*') reply.
listingProduct(p) ==
    [p EXCEPT !.images = storedImages(withImageUrl(parseImagesListing(p.images),
                                                   p.image_url)),
              !.priority = priorityOr999(p.priority)]

\* The row the narrow select returns for p: no images, no priority column.
NarrowRow(p) == [p EXCEPT !.images = JsUndefined, !.priority = JsUndefined]

\* The product fetchProducts stores for row p of the narrow reply.
fallbackProduct(p) ==
    [p EXCEPT !.images = fallbackImages(p.image_url),
              !.priority = priorityOr999(p.priority)]

\* String.prototype.toLowerCase
LowerChar(c) ==
    LET upper == <<"A", "B", "C", "D", "E", "F", "G", "H", "I", "J", "K", "L", "M",
                   "N", "O", "P", "Q", "R", "S", "T", "U", "V", "W", "X", "Y", "Z">>
        lower == <<"a", "b", "c", "d", "e", "f", "g", "h", "i", "j", "k", "l", "m",
                   "n", "o", "p", "q", "r", "s", "t", "u", "v", "w", "x", "y", "z">>
    IN  IF \E i \in DOMAIN upper : upper[i] = c
        THEN lower[CHOOSE i \in DOMAIN upper : upper[i] = c]
        ELSE c
toLowerCase(s) == [i \in DOMAIN s |-> LowerChar(s[i])]

\* p.name.toLowerCase().includes(q) || p.description?.toLowerCase().includes(q)
matches(p, query) ==
    \/ Includes(toLowerCase(p.name), toLowerCase(query))
    \/ /\ p.description.t = "string"
       /\ Includes(toLowerCase(p.description.v), toLowerCase(query))

\* handleSearch: the list it hands to setFilteredProducts.
searchResult(prods, query) ==
    IF Trim(query) = <<>> THEN prods
    ELSE SelectSeq(prods, LAMBDA p : matches(p, query))

RECURSIVE lexCompare(_, _)
\* The order of two sequences of ranks: negative, 0 or positive.
lexCompare(a, b) ==
    IF a = <<>> /\ b = <<>> THEN 0
    ELSE IF a = <<>> THEN 0 - 1
    ELSE IF b = <<>> THEN 1
    ELSE IF Head(a) # Head(b) THEN Head(a) - Head(b)
    ELSE lexCompare(Tail(a), Tail(b))

\* String.prototype.localeCompare on the letters of the model: letters
\* first, then lower case before upper case.
localeCompare(a, b) ==
    LET rank(c) == CASE c = " " -> 0 [] c = "a" -> 1 [] c = "b" -> 2
                     [] c = "c" -> 3 [] OTHER -> 4
        letters(s) == [i \in DOMAIN s |-> rank(LowerChar(s[i]))]
        cases(s) == [i \in DOMAIN s |-> IF LowerChar(s[i]) = s[i] THEN 0 ELSE 1]
        primary == lexCompare(letters(a), letters(b))
    IN  IF primary # 0 THEN primary ELSE lexCompare(cases(a), cases(b))

\* a.priority ?? 999
priorityKey(p) == priorityOr999(p.priority).v

\* new Date(p.created_at || 0).getTime(), created_at held as that time
timeKey(p) == p.created_at

comparePriorityTiesOldestAs(a, b) ==
    IF priorityKey(a) # priorityKey(b) THEN priorityKey(a) - priorityKey(b)
    ELSE timeKey(a) - timeKey(b)

\* The comparator of case 'priority'.
comparePriority(a, b) ==
    IF priorityKey(a) # priorityKey(b) THEN priorityKey(a) - priorityKey(b)
    ELSE timeKey(b) - timeKey(a)

\* The comparator of each sort key (0 for an unknown key: no reordering).
compare(key, a, b) ==
    CASE key = "priority" -> comparePriority(a, b)
      [] key = "price-low" -> a.price - b.price
      [] key = "price-high" -> b.price - a.price
      [] key = "name-asc" -> localeCompare(a.name, b.name)
      [] key = "name-desc" -> localeCompare(b.name, a.name)
      [] key = "newest" -> timeKey(b) - timeKey(a)
      [] key = "oldest" -> timeKey(a) - timeKey(b)
      [] OTHER -> 0

\* x put into the sorted list after every element that does not come after it.
RECURSIVE insertSorted(_, _, _)
insertSorted(x, sorted, key) ==
    IF sorted = <<>> THEN <<x>>
    ELSE IF compare(key, Head(sorted), x) > 0 THEN <<x>> \o sorted
    ELSE <<Head(sorted)>> \o insertSorted(x, Tail(sorted), key)

RECURSIVE stableSort(_, _)
\* Array.prototype.sort with the comparator of key (a stable sort)
stableSort(list, key) ==
    IF list = <<>> THEN <<>>
    ELSE insertSorted(list[Len(list)], stableSort(SubSeq(list, 1, Len(list) - 1), key), key)

\* const sortedProducts = useMemo(...): a sorted copy of filteredProducts
sortedProducts(filtered, key) == stableSort(filtered, key)

\* Array.prototype.slice(start, end)
slice(list, start, end) ==
    SubSeq(list, start + 1, IF end < Len(list) THEN end ELSE Len(list))

paginatedFromPageAs(sorted, page) ==
    slice(sorted, page * ITEMS_PER_PAGE, page * ITEMS_PER_PAGE + ITEMS_PER_PAGE)

\* const paginatedProducts = useMemo(...)
paginatedProducts(sorted, page) ==
    LET startIndex == (page - 1) * ITEMS_PER_PAGE
        endIndex == startIndex + ITEMS_PER_PAGE
    IN  slice(sorted, startIndex, endIndex)

\* Math.ceil(sortedProducts.length / ITEMS_PER_PAGE)
totalPages(sorted) ==
    IF Len(sorted) % ITEMS_PER_PAGE = 0 THEN Len(sorted) \div ITEMS_PER_PAGE
    ELSE Len(sorted) \div ITEMS_PER_PAGE + 1

pageAfterKeepAs(page, filtered2, key2) == page

\* useEffect(() => setCurrentPage(1), [sortedProducts.length, sortBy]): the
\* page after a render in which the list became filtered2 and the key key2.
pageAfter(page, filtered2, key2) ==
    IF Len(filtered2) # Len(filteredProducts) \/ key2 # sortBy THEN 1 ELSE page

homeRest == <<items, pageVars, formData, chargeVars, subs, backendVars, toast,
              lastResp, fbq, detailVars, rawImages, imageVars, catalogRows>>

\* fetchProducts has ended: finally { setLoading(false) }
homeDone(used) ==
    /\ homeLoading' = FALSE
    /\ homeFetch' = [homeFetch EXCEPT !.pc = "done", !.used = used]

\* setProducts(list); setFilteredProducts(list), and the page reset effect
homeLoaded(list) ==
    /\ homeProducts' = list
    /\ filteredProducts' = list
    /\ currentPage' = pageAfter(currentPage, list, sortBy)

\* catch: console.error
homeCatch ==
    /\ homeDone("none")
    /\ UNCHANGED <<homeProducts, filteredProducts, currentPage>>

\* fetchProducts: the reply to the select('*') query arrives.
ProductsFirstReply ==
    /\ homeFetch.pc = "first"
    /\ LET reply == homeFetch.plan IN
       IF reply.outcome = "ok"
       THEN /\ homeLoaded([i \in DOMAIN catalogRows |->
                              listingProduct(catalogRows[i])])
            /\ homeDone("full")
       ELSE IF reply.outcome = "error" /\ retryListing(reply.message)
       THEN /\ homeFetch' = [homeFetch EXCEPT !.pc = "fallback",
                                              !.queries = @ + 1]
            /\ UNCHANGED <<homeProducts, filteredProducts, currentPage,
                           homeLoading>>
       ELSE homeCatch
    /\ UNCHANGED <<homeRest, sortBy, lastQuery>>

\* fetchProducts: the reply to the narrow query arrives.
ProductsFallbackReply ==
    /\ homeFetch.pc = "fallback"
    /\ \/ /\ homeLoaded([i \in DOMAIN catalogRows |->
                            fallbackProduct(NarrowRow(catalogRows[i]))])
          /\ homeDone("narrow")
       \/ \E outcome \in {"error", "throw"} : homeCatch
    /\ UNCHANGED <<homeRest, sortBy, lastQuery>>

\* The queries typed into the header's search box.
Queries == {<<>>, <<" ">>, <<"a">>, <<"A", "B">>, <<"c">>, <<" ", "b">>, <<"x", "a">>}

\* handleSearch(query); it ends at fbqTrack when window.fbq throws.
handleSearch ==
    /\ homeFetch.pc # "unmounted"
    /\ \E query \in Queries :
        /\ lastQuery' = [called |-> TRUE, query |-> query]
        /\ IF fbqTrack(fbq) = "threw"
           THEN UNCHANGED <<filteredProducts, currentPage>>
           ELSE /\ filteredProducts' = searchResult(homeProducts, query)
                /\ currentPage' = pageAfter(1, searchResult(homeProducts, query),
                                            sortBy)
    /\ UNCHANGED <<homeRest, homeProducts, homeLoading, sortBy, homeFetch>>

SortKeys == {"priority", "price-low", "price-high", "name-asc", "name-desc",
             "newest", "oldest"}

\* <Select value={sortBy} onValueChange={setSortBy}>, and the page reset effect
setSortBy ==
    /\ homeFetch.pc # "unmounted"
    /\ \E key \in SortKeys :
        /\ key # sortBy
        /\ sortBy' = key
        /\ currentPage' = pageAfter(currentPage, filteredProducts, key)
    /\ UNCHANGED <<homeRest, homeProducts, filteredProducts, homeLoading,
                   homeFetch, lastQuery>>

\* <Pagination onPageChange={setCurrentPage}>, shown once the list is loaded
\* and not empty; a page of 1..totalPages is picked.
setCurrentPage ==
    /\ ~homeLoading
    /\ Len(filteredProducts) > 0
    /\ \E page \in 1..totalPages(sortedProducts(filteredProducts, sortBy)) :
        /\ page # currentPage
        /\ currentPage' = pageAfter(page, filteredProducts, sortBy)
    /\ UNCHANGED <<homeRest, homeProducts, filteredProducts, homeLoading, sortBy,
                   homeFetch, lastQuery>>

\* fetchProducts at its first await.
MountedHome(reply) ==
    [pc |-> "first", id |-> "", queries |-> 1, plan |-> reply, used |-> "none",
     navigated |-> FALSE]

\* Length of the listings whose products are chosen one by one.
MaxSmall == 2

\* The four kinds of product a listing holds: the columns that searching
\* and sorting read.
KindRow(k) ==
    CASE k = 1 -> [name |-> <<"A", "b">>, description |-> JsNull,
                   price |-> 5 * Unit, priority |-> JsNum(1), created_at |-> 1]
      [] k = 2 -> [name |-> <<"b">>, description |-> JsStr(<<"x", "A">>),
                   price |-> 3 * Unit, priority |-> JsNull, created_at |-> 2]
      [] k = 3 -> [name |-> <<"c">>, description |-> JsStr(<<>>),
                   price |-> 5 * Unit, priority |-> JsNum(1), created_at |-> 2]
      [] OTHER -> [name |-> <<"a", " ", "b">>, description |-> JsNull,
                   price |-> Unit, priority |-> JsNum(1000), created_at |-> 0]

\* The products row number i, of kind k, with the image columns raw.
HomeRow(i, k, raw) ==
    [id |-> i, name |-> KindRow(k).name, description |-> KindRow(k).description,
     price |-> KindRow(k).price, priority |-> KindRow(k).priority,
     created_at |-> KindRow(k).created_at, stock |-> 1,
     images |-> raw.images, image_url |-> raw.image_url]

\* The products tables of the listing: every table of up to MaxSmall rows,
\* and one table of each length up to MaxItems.
HomeCatalogs ==
    {[i \in DOMAIN ks |-> HomeRow(i, ks[i], NoRawImages)] :
        ks \in SeqsUpTo(1..4, MaxSmall)}
    \cup {[i \in 1..n |-> HomeRow(i, (i % 4) + 1, NoRawImages)] :
            n \in (MaxSmall + 1)..MaxItems}

\* The cart page as it is when another page is looked at.
CartPageAside ==
    /\ InitPage
    /\ items = <<>>
    /\ formData = EmptyForm
    /\ dcResponse = CheckoutChargeReply
    /\ products = [id \in Ids |-> [exists |-> TRUE, stock |-> MaxQty]]

\* The listing after mount: any products table, the first query answered
\* with rows, a missing-column error, another error or an exception.
InitHome ==
    /\ CartPageAside
    /\ DetailUnmounted
    /\ NoImageRendered
    /\ rawImages = NoRawImages
    /\ fbq \in {"ok", "throws"}
    /\ homeProducts = <<>>
    /\ filteredProducts = <<>>
    /\ homeLoading = TRUE
    /\ currentPage = 1
    /\ sortBy = "priority"
    /\ lastQuery = NoQuery
    /\ catalogRows \in HomeCatalogs
    /\ homeFetch \in {MountedHome(r) :
          r \in {OkReply, [outcome |-> "throw", message |-> <<>>],
                 [outcome |-> "error", message |-> <<"column">>],
                 [outcome |-> "error", message |-> <<"JWT", "expired">>]}}

NextHome ==
    \/ ProductsFirstReply
    \/ ProductsFallbackReply
    \/ handleSearch
    \/ setSortBy
    \/ setCurrentPage

SpecHome == InitHome /\ [][NextHome]_vars

\* ------------------------------------------ the product page, opened
\* The route renders ProductDetails with useParams' id ("": no id), in a new
\* instance or, when only the id of the route changes, in the instance on
\* screen, whose state stays. The mount effect calls fetchProduct if there
\* is an id; fetchProduct's own test of the id is behind that one.
OpenProductPage ==
    /\ detailFetch.pc \in {"unmounted", "done", "noid"}
    /\ \E id \in Ids \cup {""}, fresh \in BOOLEAN :
        /\ (detailFetch.pc = "unmounted" \/ detailFetch.navigated) => fresh
        /\ id = "" => fresh
        /\ ~fresh => id # detailFetch.id
        /\ product' = IF fresh THEN NoProduct ELSE product
        /\ quantity' = IF fresh THEN 1 ELSE quantity
        /\ detailLoading' = TRUE
        /\ IF id = ""
           THEN detailFetch' = [NoFetch EXCEPT !.pc = "noid"]
           ELSE \E reply \in {OkReply, [outcome |-> "throw", message |-> <<>>],
                              [outcome |-> "error", message |-> <<"column">>],
                              [outcome |-> "error", message |-> <<"JWT", "expired">>]} :
                    detailFetch' = MountedDetail(id, reply)
    /\ UNCHANGED <<detailRest, toast, adds>>

\* No product page open yet; p1 in full stock, p2 with one unit or sold out.
InitDetail ==
    /\ InitPage
    /\ items = <<>>
    /\ formData = EmptyForm
    /\ dcResponse = CheckoutChargeReply
    /\ products \in {[id \in Ids |-> [exists |-> TRUE,
                                      stock |-> IF id = "p1" THEN MaxQty ELSE n]] :
                        n \in {0, 1}}
    /\ fbq = "ok"
    /\ rawImages = NoRawImages
    /\ DetailUnmounted
    /\ HomeUnmounted
    /\ NoImageRendered

NextDetail ==
    \/ OpenProductPage
    \/ ProductFirstReply
    \/ ProductFallbackReply
    \/ QtyMinus
    \/ QtyPlus
    \/ handleAddToCart
    \/ \E a \in Slots : IpReplied(a)
    \/ \E a \in Slots : ActivityInserted(a)

SpecDetail == InitDetail /\ [][NextDetail]_vars

\* ------------------------------------------------- the two fetches alone
\* Number of entries of a raw images array at most.
MaxEntries == 2

\* The entries of a raw images array: URLs, blanks and non-strings.
ImageEntries ==
    {JsStr(<<"a">>), JsStr(<<"b">>), JsStr(<<>>), JsStr(<<" ">>), JsNull, JsNum(7)}

\* The products.images column as the backend returns it: absent, null, a
\* number, an empty, blank or URL string, a string of JSON that is not an
\* array, a native array, or a string of a JSON array.
RawImagesValues ==
    {JsUndefined, JsNull, JsNum(7), JsStr(<<>>), JsStr(<<" ">>), JsStr(<<"a">>),
     JsonStr(<<"7">>, JsNum(7)), JsonStr(<<"n", "u", "l", "l">>, JsNull)}
    \cup {JsArr(es) : es \in SeqsUpTo(ImageEntries, MaxEntries)}
    \cup {JsonStr(<<"[", "]">>, JsArr(es)) : es \in SeqsUpTo(ImageEntries, MaxEntries)}

\* The products.image_url column: null, empty, blank or a URL.
RawImageUrls == {JsNull, JsStr(<<>>), JsStr(<<" ">>), JsStr(<<"c">>)}

\* Either page just mounted, its fetch at the first await, the product row
\* with any image columns, the first query about to get any reply.
InitFetch ==
    /\ CartPageAside
    /\ NoImageRendered
    /\ fbq = "ok"
    /\ rawImages \in [images : RawImagesValues, image_url : RawImageUrls]
    /\ \/ /\ DetailUnmounted
          /\ homeProducts = <<>>
          /\ filteredProducts = <<>>
          /\ homeLoading = TRUE
          /\ currentPage = 1
          /\ sortBy = "priority"
          /\ lastQuery = NoQuery
          /\ catalogRows = <<HomeRow(1, 1, rawImages)>>
          /\ homeFetch \in {MountedHome(r) : r \in Replies}
       \/ /\ HomeUnmounted
          /\ product = NoProduct
          /\ detailLoading = TRUE
          /\ quantity = 1
          /\ adds = [a \in Slots |-> Idle]
          /\ detailFetch \in {MountedDetail("p1", r) : r \in Replies}

NextFetch ==
    \/ ProductsFirstReply
    \/ ProductsFallbackReply
    \/ ProductFirstReply
    \/ ProductFallbackReply

SpecFetch == InitFetch /\ [][NextFetch]_vars

\* ------------------------------------------------ cart line thumbnail
\* const validImageExts = [...]
validImageExts ==
    {<<".", "j", "p", "g">>, <<".", "j", "p", "e", "g">>, <<".", "p", "n", "g">>,
     <<".", "g", "i", "f">>, <<".", "w", "e", "b", "p">>, <<".", "b", "m", "p">>,
     <<".", "s", "v", "g">>, <<".", "a", "v", "i", "f">>}

\* String.prototype.endsWith
endsWith(s, suffix) ==
    /\ Len(s) >= Len(suffix)
    /\ SubSeq(s, Len(s) - Len(suffix) + 1, Len(s)) = suffix

isValidImageExactCaseAs(url) ==
    /\ Truthy(url)
    /\ url.t = "string"
    /\ \E ext \in validImageExts : endsWith(url.v, ext)

\* const isValidImage = (url) => ...
isValidImage(url) ==
    /\ Truthy(url)
    /\ url.t = "string"
    /\ \E ext \in validImageExts : endsWith(toLowerCase(url.v), ext)

\* getFirstImageUrl(imageData)
getFirstImageUrl(data) ==
    IF ~Truthy(data) THEN JsNull
    ELSE LET urls == IF data.t = "array" THEN data.v
                     ELSE IF data.t = "string"
                     THEN IF data.json.t = "array" THEN data.json.v ELSE <<data>>
                     ELSE <<>>
             validImages == SelectSeq(urls, isValidImage)
         IN  IF Len(validImages) > 0 THEN validImages[1] ELSE JsNull

\* The entries of a cart line's image_url: image URLs in lower, upper and
\* mixed case, a video URL, URLs where the extension is not at the end or
\* has no dot, the empty string, and non-strings.
ThumbEntries ==
    {JsStr(<<"a", ".", "j", "p", "g">>), JsStr(<<"b", ".", "J", "P", "G">>),
     JsStr(<<"c", ".", "W", "e", "b", "p">>), JsStr(<<"v", ".", "m", "p", "4">>),
     JsStr(<<"d", ".", "p", "n", "g", "?">>), JsStr(<<"e", "p", "n", "g">>),
     JsStr(<<>>), JsNull, JsNum(7)}

\* item.image_url of a cart line: null, undefined, numbers, a single
\* string, a string of JSON that is not an array, a native array, a
\* string of a JSON array.
ThumbInputs ==
    ThumbEntries
    \cup {JsUndefined, JsNum(0),
          JsonStr(<<"7">>, JsNum(7)),
          JsonStr(<<"\"", "a", ".", "j", "p", "g", "\"">>,
                  JsStr(<<"a", ".", "j", "p", "g">>))}
    \cup {JsArr(es) : es \in SeqsUpTo(ThumbEntries, MaxEntries)}
    \cup {JsonStr(<<"[", "]">>, JsArr(es)) : es \in SeqsUpTo(ThumbEntries, MaxEntries)}

\* The cart page about to render a line whose image_url is imageData.
InitThumb ==
    /\ CartPageAside
    /\ DetailUnmounted
    /\ HomeUnmounted
    /\ fbq = "ok"
    /\ rawImages = NoRawImages
    /\ imageData \in ThumbInputs
    /\ firstImageUrl = Unrendered

\* items.map(item => { const firstImageUrl = getFirstImageUrl(item.image_url) ...
RenderCartLine ==
    /\ firstImageUrl = Unrendered
    /\ firstImageUrl' = getFirstImageUrl(imageData)
    /\ UNCHANGED <<items, pageVars, formData, chargeVars, subs, backendVars,
                   toast, lastResp, fbq, detailVars, homeVars, rawImages,
                   imageData>>

NextThumb == RenderCartLine

SpecThumb == InitThumb /\ [][NextThumb]_vars

\* ------------------------------------------- checkout beside other buyers
\* Another buyer's order, or an edit of the catalog, lowers the stock of a
\* product: the products table is shared, and nothing ties the checkout's
\* stock fetch to its inserts.
StockChanged ==
    /\ \E id \in Ids, n \in 0..MaxQty :
        /\ products[id].exists
        /\ n < products[id].stock
        /\ products' = [products EXCEPT ![id].stock = n]
    /\ UNCHANGED <<items, pageVars, formData, chargeVars, subs, orders,
                   orderItems, nextOrderId, submitted, toast, lastResp,
                   otherPages>>

\* The cart page with a stored cart and the form filled, every product in
\* full stock.
InitRace ==
    /\ InitPage
    /\ CartPageAlone
    /\ items \in StoreCarts
    /\ formData = FilledForm("inside_dhaka")
    /\ dcResponse = CheckoutChargeReply
    /\ products = [id \in Ids |-> [exists |-> TRUE, stock |-> MaxQty]]

NextRace ==
    \/ Next
    \/ StockChanged

SpecRace == InitRace /\ [][NextRace]_vars

\* ================================================================ claims
FailureKinds ==
    {"EmptyCart", "InvalidCartLine", "NameRequired", "PhoneRequired",
     "InvalidPhone", "AddressRequired", "ProductsUnavailable", "OutOfStock",
     "ProductsCheckFailed", "OrderCreateFailed", "OrderIdMissing",
     "NoValidProducts", "OrderItemsInsertFailed", "Exception"}

\* Slot s takes a step of its handler.
Steps(s) == InFlight(s) /\ subs'[s] # subs[s]

\* The reply the step consumed.
Reply(call, outcome) == lastResp'.call = call /\ lastResp'.outcome = outcome

\* C1: a submission whose order insert succeeded and whose order-items insert
\* failed (or that had no order items to insert) ends with no Order row of its
\* own left in the orders table, with the cart it started from, and with a
\* failure reported, whatever result or error each backend call returned, the
\* compensating delete included.
C1_NoPartialOrderLeft ==
    [][\A s \in Slots :
        (/\ Steps(s)
         /\ subs[s].pc \in {"awaitItems", "awaitDelete"}
         /\ subs'[s].pc = "idle"
         /\ lastResp'.outcome \in {"ok", "error"}
         /\ ~Reply("order_items", "ok"))
        => /\ \A o \in orders' : o.id # subs[s].orderId
           /\ items' = subs[s].items
           /\ toast'.kind \in FailureKinds]_vars

\* The lines of its that the reply rows rows leave short of stock.
ShortLines(its, rows) ==
    SelectSeq(its, LAMBDA l :
        \E j \in DOMAIN rows : rows[j].id = l.id /\ rows[j].stock < l.quantity)

\* C2: when the products reply holds every cart product and some line asks
\* for more than the live stock, the submission ends rejected, the rejection
\* names exactly the short lines (with their stock), no Order or OrderItem
\* row is inserted and the cart is as it was.
C2_OutOfStockRejection ==
    [][\A s \in Slots :
        LET its == subs[s].items
            rows == lastResp'.data
            short == ShortLines(its, rows)
        IN  (/\ Steps(s)
             /\ subs[s].pc = "awaitProducts"
             /\ Reply("products", "ok")
             /\ LineIds(its) \subseteq RowIds(rows)
             /\ short # <<>>)
            => /\ toast'.kind = "OutOfStock"
               /\ toast'.names = [i \in DOMAIN short |-> NameOf(short[i].id)]
               /\ toast'.stocks = [i \in DOMAIN short |-> products[short[i].id].stock]
               /\ orders' = orders
               /\ orderItems' = orderItems
               /\ nextOrderId' = nextOrderId
               /\ items' = items
               /\ subs'[s].pc = "idle"]_vars

\* C2 witness: A has stock for its quantity, B has not; the rejection names B
\* only and both lines are still in the cart.
C2_Witness ==
    /\ toast.kind = "OutOfStock"
    /\ toast.names = <<"B">>
    /\ Len(items) = 2
    /\ items[1].id = "p1" /\ items[1].quantity = 2
    /\ orders = {}
    /\ InFlightSlots = {}

\* C3: when the products reply lacks some cart product, the submission ends
\* rejected, exactly the cart lines of the missing ids are removed and the
\* others stay as they are, no Order or OrderItem row is inserted, and the
\* submit button is enabled again.
C3_ProductsUnavailable ==
    [][\A s \in Slots :
        LET its == subs[s].items
            goneIds == LineIds(its) \ RowIds(lastResp'.data)
            gone == SelectSeq(its, LAMBDA l : l.id \in goneIds)
        IN  (/\ Steps(s)
             /\ subs[s].pc = "awaitProducts"
             /\ Reply("products", "ok")
             /\ goneIds # {})
            => /\ toast'.kind = "ProductsUnavailable"
               /\ toast'.names = [i \in DOMAIN gone |-> gone[i].name]
               /\ items' = SelectSeq(items, LAMBDA l : l.id \notin goneIds)
               /\ orders' = orders
               /\ orderItems' = orderItems
               /\ nextOrderId' = nextOrderId
               /\ subs'[s].pc = "idle"
               /\ ~loading'
               /\ ~SubmitDisabled']_vars

\* C3 witness: the line of the missing product is gone, the other line is
\* still there, and nothing is in flight.
C3_Witness ==
    /\ toast.kind = "ProductsUnavailable"
    /\ toast.names = <<"A">>
    /\ Len(items) = 1
    /\ items[1].id = "p2"
    /\ ~loading
    /\ orders = {}

\* C7: while a submission is in flight nothing but the submission changes the
\* Cart Store, and the lines cleared on success are the lines written as
\* OrderItem rows.
C7_NoCartMutationInFlight ==
    [][/\ (InFlightSlots # {} /\ subs' = subs) => items' = items
       /\ \A s \in Slots :
            (Steps(s) /\ Reply("order_items", "ok")) => items = subs[s].items]_vars

\* The OrderItem rows of order oid in table t.
RowsOf(t, oid) == {r \in t : r.order_id = oid}

RECURSIVE SumRows(_)
\* Sum of price * quantity over a set of OrderItem rows.
SumRows(rows) ==
    IF rows = {} THEN 0
    ELSE LET r == CHOOSE x \in rows : TRUE
         IN  r.price * r.quantity + SumRows(rows \ {r})

\* The claim of C5 for one Order row.
TotalMatches(o) ==
    o.total_amount = SumRows(RowsOf(orderItems, o.id))
                     + submitted[o.id].deliveryCharge

\* C5 as stated: every Order row of the orders table has totalAmount equal to
\* the sum of price * quantity over its OrderItem rows plus the delivery
\* charge in force for its location type at submission.
C5_EveryOrderTotal ==
    \A o \in orders : TotalMatches(o)

\* C5 amended: every Order row whose OrderItem rows have been inserted has
\* totalAmount equal to the sum of price * quantity over those rows plus the
\* delivery charge in force for its location type at submission.
C5_PlacedOrderTotal ==
    \A o \in orders :
        /\ o.location_type = submitted[o.id].location
        /\ RowsOf(orderItems, o.id) # {} => TotalMatches(o)

\* C5 witness: a two-line order placed outside Dhaka after the charge
\* override arrived: 2 * 10 + 2 * 2 + 150.
C5_Witness ==
    \E o \in orders :
        /\ Cardinality(RowsOf(orderItems, o.id)) = 2
        /\ o.location_type = "outside_dhaka"
        /\ submitted[o.id].deliveryCharge = 150 * Unit
        /\ o.total_amount = 174 * Unit

\* C8: at most one handleSubmit invocation is suspended at an await at any
\* time, and while one is the busy flag is set and the submit button is
\* disabled, so no second invocation starts.
C8_OneSubmissionInFlight ==
    /\ Cardinality(InFlightSlots) <= 1
    /\ InFlightSlots # {} => loading /\ ~ENABLED handleSubmit

\* C8 witness: one submission has inserted its order and waits for the
\* order-items reply with the button disabled.
C8_Witness ==
    /\ \E s \in Slots : subs[s].pc = "awaitItems"
    /\ loading
    /\ Cardinality(orders) = 1

\* A text with nothing but spaces in it (the empty text included).
OnlySpaces(t) == \A i \in DOMAIN t : t[i] = " "

\* The inputs C6 names: an empty cart, a line without id or name or with a
\* price or quantity of 0 or less, a name, phone or address that is empty or
\* all whitespace, a phone with a character outside digits + - ( ) and space.
BadInput ==
    \/ items = <<>>
    \/ \E i \in DOMAIN items :
          \/ items[i].id = ""
          \/ items[i].name = ""
          \/ items[i].price <= 0
          \/ items[i].quantity <= 0
    \/ OnlySpaces(formData.name)
    \/ OnlySpaces(formData.phone)
    \/ OnlySpaces(formData.address)
    \/ \E i \in DOMAIN formData.phone : formData.phone[i] \notin PhoneChars

\* C6: from a state with such an input, a submit (any step that is not an
\* edit of the form) starts no handler invocation, issues no backend call,
\* leaves the busy flag and the cart as they are, and reports a rejection.
C6_LocalRejection ==
    [][(BadInput /\ formData' = formData) =>
          /\ subs' = subs
          /\ loading' = loading
          /\ items' = items
          /\ lastResp' = lastResp
          /\ UNCHANGED backendVars
          /\ toast'.kind \in {"EmptyCart", "InvalidCartLine", "NameRequired",
                              "PhoneRequired", "InvalidPhone", "AddressRequired"}]_vars

\* C6 witness: a valid cart, name and address, and a phone with a letter in
\* it: the submit was rejected for the phone, nothing is in flight.
C6_Witness ==
    /\ toast.kind = "InvalidPhone"
    /\ formData.phone = <<"0", "x", "1">>
    /\ items = <<GoodLine, [id |-> "p1", name |-> "A", price |-> 10 * Unit,
                            quantity |-> 1]>>
    /\ ~loading
    /\ InFlightSlots = {}

\* The moves of one handler invocation between its awaits.
PcEdges ==
    {<<"idle", "awaitProducts">>, <<"awaitProducts", "idle">>,
     <<"awaitProducts", "awaitOrder">>, <<"awaitOrder", "idle">>,
     <<"awaitOrder", "awaitItems">>, <<"awaitOrder", "awaitDelete">>,
     <<"awaitItems", "idle">>, <<"awaitItems", "awaitDelete">>,
     <<"awaitDelete", "idle">>}

\* C9: with every issued backend call answered, a started submission ends,
\* with the busy flag off and either the success notice and the confirmed
\* flag or a failure notice; an invocation moves only along idle ->
\* products -> order -> items (-> delete) -> idle; and the page becomes
\* confirmed only in the step that consumes the order-items reply, which
\* follows the order insert.
C9_SubmissionEnds ==
    /\ \A s \in Slots :
          InFlight(s) ~>
            (/\ ~InFlight(s)
             /\ ~loading
             /\ \/ toast.kind = "Success" /\ orderConfirmed
                \/ toast.kind \in FailureKinds)
    /\ [][\A s \in Slots :
            /\ subs'[s].pc # subs[s].pc => <<subs[s].pc, subs'[s].pc>> \in PcEdges
            /\ subs[s].pc = "awaitItems" => subs[s].orderId \in {o.id : o \in orders}]_vars
    /\ [][(orderConfirmed' /\ ~orderConfirmed) =>
            \E s \in Slots : subs[s].pc = "awaitItems" /\ subs'[s].pc = "idle"]_vars

\* C9 witness: a submission went through the failed order-items insert and
\* the compensating delete, and ended rejected with the busy flag off.
C9_Witness ==
    /\ toast.kind = "OrderItemsInsertFailed"
    /\ lastResp.call = "delete"
    /\ InFlightSlots = {}
    /\ ~loading
    /\ ~orderConfirmed

\* The number a charge column value stands for.
ChargeValue(raw) ==
    IF raw.t = "number" THEN raw.v
    ELSE CASE raw.v = <<"9", "5">> -> 95 * Unit

\* The charge C10 states for a location type: that of its row in the reply
\* (the last one, if there are several), else the built-in default.
StatedCharge(loc, default) ==
    LET d == dcResponse.data
        at == {i \in DOMAIN d : d[i].location_type = loc}
    IN  IF dcResponse.outcome # "ok" \/ at = {} THEN default
        ELSE ChargeValue(d[CHOOSE i \in at : \A j \in at : j <= i].charge)

\* C10: before the reply the charges are 60 and 120; after it each location
\* type has the charge of its row if the reply has one and its default
\* otherwise (so 60 and 120 after an error, an exception or an empty
\* reply); the lookup shows no notice and does not touch the busy flag.
C10_DeliveryChargeLookup ==
    /\ dcPc = "pending" =>
          deliveryCharges = [inside_dhaka |-> 60 * Unit, outside_dhaka |-> 120 * Unit]
    /\ dcPc = "done" =>
          deliveryCharges = [inside_dhaka |-> StatedCharge("inside_dhaka", 60 * Unit),
                             outside_dhaka |-> StatedCharge("outside_dhaka", 120 * Unit)]
    /\ toast.kind = "none"
    /\ ~loading

\* C10 witness: the reply held a row for inside only (95, as text, after a
\* row of an unknown location type); outside kept its default.
C10_Witness ==
    /\ dcPc = "done"
    /\ Len(dcResponse.data) = 2
    /\ dcResponse.data[1].location_type = "sylhet"
    /\ deliveryCharges = [inside_dhaka |-> 95 * Unit, outside_dhaka |-> 120 * Unit]

\* C11: the cart holds no line with a quantity below 1 and no two lines of
\* one product, whatever additions, quantity changes, removals and clearings
\* led to it; and on every line of it updateQuantity with a quantity of 0 or
\* less (the minus button's quantity - 1 on a line of quantity 1 included)
\* gives the cart removeItem gives.
C11_CartStoreInvariant ==
    /\ \A i \in DOMAIN items : items[i].quantity >= 1
    /\ \A i, j \in DOMAIN items : items[i].id = items[j].id => i = j
    /\ \A i \in DOMAIN items :
          \A q \in {0 - 1, 0, items[i].quantity - 1} :
              q <= 0 => updateQuantity(items, items[i].id, q)
                          = removeItem(items, items[i].id)

\* C11 witness: an order was placed (the cart cleared), and two units of p1
\* were added to the cart after that.
C11_Witness ==
    /\ orderConfirmed
    /\ orderItems # {}
    /\ Len(items) = 1
    /\ items[1].id = "p1"
    /\ items[1].quantity = 2

\* The line handleAddToCart adds for product p, with quantity q.
LineOf(p, q) == [id |-> p.id, name |-> p.name, price |-> p.price, quantity |-> q]

\* C12: the step that ends a handleAddToCart of n units of a product leaves
\* exactly one line of that product, its quantity n more than before (n, if
\* there was none); a product already in the cart keeps its place and no line
\* is added, a new product's line comes after the lines there were, and
\* these are unchanged; adding quantity 1 and then quantity 2 of a product to
\* an empty cart gives one line of quantity 3.
C12_AddItemMerges ==
    [][\A a \in Slots :
        (adds[a].pc = "awaitInsert" /\ adds'[a].pc = "idle") =>
          LET p == adds[a].product
              n == adds[a].quantity
              at == {i \in DOMAIN items : items[i].id = p.id}
              at2 == {i \in DOMAIN items' : items'[i].id = p.id}
          IN  /\ Cardinality(at2) = 1
              /\ CartQty(items', p.id) = CartQty(items, p.id) + n
              /\ IF at # {}
                 THEN /\ at2 = at
                      /\ Len(items') = Len(items)
                 ELSE /\ at2 = {Len(items) + 1}
                      /\ Len(items') = Len(items) + 1
              /\ \A i \in DOMAIN items : i \notin at => items'[i] = items[i]
              /\ addItem(addItem(<<>>, LineOf(p, 1)), LineOf(p, 2))
                    = <<LineOf(p, 3)>>]_vars

\* C12 witness: the cart held a line of p2; p1 was added once with quantity 1
\* and once with quantity 2, and has one line of quantity 3 after it.
C12_Witness ==
    /\ Len(items) = 2
    /\ items[1].id = "p2"
    /\ items[2].id = "p1"
    /\ items[2].quantity = 3
    /\ toast.kind = "AddedToCart"
    /\ \A a \in Slots : adds[a].pc = "idle"

\* C20: a started handleAddToCart adds its units, whatever becomes of the
\* analytics requests it makes on the way, a reply that never arrives
\* included.
C20_AnalyticsNeverBlocks ==
    \A a \in Slots : (adds[a].pc # "idle") ~> (adds[a].pc = "idle")

\* The products of the listing that the search for query is said to keep.
SaidToMatch(prods, query) ==
    LET q == toLowerCase(query)
        has(text) == \E i \in 0..(Len(text) - Len(q)) :
                        SubSeq(toLowerCase(text), i + 1, i + Len(q)) = q
        keeps(p) == \/ has(p.name)
                    \/ p.description.t = "string" /\ has(p.description.v)
    IN  IF query = <<>> THEN prods ELSE SelectSeq(prods, keeps)

\* C15: every call of handleSearch leaves as the filtered set exactly the
\* products of the catalog whose name or description contains the query as a
\* case-insensitive substring, in catalog order; an empty query leaves the
\* whole catalog, and a product without a description is matched on its name.
C15_SearchFilter ==
    [][lastQuery' # lastQuery
       => filteredProducts' = SaidToMatch(homeProducts, lastQuery'.query)]_vars

\* The priority a product is sorted by: its priority column, 999 without one.
SortPriority(p) ==
    IF homeFetch.used = "full" /\ catalogRows[p.id].priority.t = "number"
    THEN catalogRows[p.id].priority.v
    ELSE 999

\* C16: under the default sort key the displayed list is a permutation of
\* the filtered set, in ascending priority with a missing priority counted as
\* 999 and equal priorities by creation time descending; the filtered set
\* itself stays a selection of the catalog in catalog order.
C16_DefaultSort ==
    sortBy = "priority" =>
        LET sorted == sortedProducts(filteredProducts, sortBy) IN
        /\ Len(sorted) = Len(filteredProducts)
        /\ {sorted[i] : i \in DOMAIN sorted}
             = {filteredProducts[i] : i \in DOMAIN filteredProducts}
        /\ \A i, j \in DOMAIN sorted :
             i < j => \/ SortPriority(sorted[i]) < SortPriority(sorted[j])
                      \/ /\ SortPriority(sorted[i]) = SortPriority(sorted[j])
                         /\ sorted[i].created_at >= sorted[j].created_at
        /\ \A i, j \in DOMAIN filteredProducts :
             /\ filteredProducts[i] = homeProducts[filteredProducts[i].id]
             /\ i < j => filteredProducts[i].id < filteredProducts[j].id

\* The default sort has reordered a filtered set that holds two products of
\* one priority, the older one first, and a product without a priority
\* before one of priority 1000.
C16_Witness ==
    /\ sortBy = "priority"
    /\ homeFetch.used = "full"
    /\ \E i, j \in DOMAIN filteredProducts :
         /\ i < j
         /\ SortPriority(filteredProducts[i]) = SortPriority(filteredProducts[j])
         /\ filteredProducts[i].created_at < filteredProducts[j].created_at
    /\ \E i, j \in DOMAIN filteredProducts :
         /\ j < i
         /\ catalogRows[filteredProducts[i].id].priority.t = "null"
         /\ SortPriority(filteredProducts[j]) = 1000
    /\ sortedProducts(filteredProducts, sortBy) # filteredProducts

\* C17: the sorted list is cut into pages of 12: page p holds the items of
\* positions (p - 1) * 12 + 1 to p * 12 that exist, there are ceil(n / 12)
\* pages, every page but the last holds 12 items, and 25 items make 3 pages
\* of which the third holds one item.
C17_Pagination ==
    LET sorted == sortedProducts(filteredProducts, sortBy)
        n == Len(sorted)
        pages == totalPages(sorted)
        shown(p) == paginatedProducts(sorted, p)
    IN  /\ pages * 12 >= n
        /\ pages * 12 < n + 12
        /\ \A p \in 1..pages :
             /\ Len(shown(p)) = (IF p * 12 <= n THEN 12 ELSE n - (p - 1) * 12)
             /\ \A k \in 1..Len(shown(p)) : shown(p)[k] = sorted[(p - 1) * 12 + k]
        /\ n = 25 => pages = 3 /\ Len(shown(3)) = 1

\* The third page of 25 products is on display.
C17_Witness ==
    /\ Len(filteredProducts) = 25
    /\ currentPage = 3
    /\ Len(paginatedProducts(sortedProducts(filteredProducts, sortBy),
                             currentPage)) = 1

\* C18: the current page is 1 after every step that changes the filtered
\* set or the sort key; whenever there is a page, the current page is one
\* of 1..totalPages and the page on display is not empty.
C18_PageReset ==
    /\ [](LET sorted == sortedProducts(filteredProducts, sortBy) IN
          totalPages(sorted) >= 1 =>
             /\ currentPage \in 1..totalPages(sorted)
             /\ paginatedProducts(sorted, currentPage) # <<>>)
    /\ [][(filteredProducts' # filteredProducts \/ sortBy' # sortBy)
          => currentPage' = 1]_vars

\* After a search that kept a part of the catalog, under a sort key picked
\* by the visitor, the second and last page is on display.
C18_Witness ==
    /\ lastQuery.called
    /\ sortBy # "priority"
    /\ 0 < Len(filteredProducts)
    /\ Len(filteredProducts) < Len(homeProducts)
    /\ currentPage = 2
    /\ totalPages(sortedProducts(filteredProducts, sortBy)) = 2

\* A list of images as the catalog is said to hold it: undefined, or a
\* non-empty list of strings that each have a non-whitespace character.
WellFormedImages(x) ==
    \/ x = JsUndefined
    \/ /\ x.t = "array"
       /\ Len(x.v) > 0
       /\ \A i \in DOMAIN x.v :
            /\ x.v[i].t = "string"
            /\ \E k \in DOMAIN x.v[i].v : x.v[i].v[k] # " "

\* The images the normalizer is said to store for a raw row: the valid
\* entries of the raw images in their order, else the image_url alone if it
\* is valid, else undefined. The narrow query returns no images column.
SaidImages(raw, used) ==
    LET good(e) == e.t = "string" /\ \E k \in DOMAIN e.v : e.v[k] # " "
        entries == IF used = "narrow" THEN <<>>
                   ELSE IF raw.images.t = "array" THEN raw.images.v
                   ELSE IF raw.images.t = "string"
                   THEN IF raw.images.json.t = "array" THEN raw.images.json.v
                        ELSE <<raw.images>>
                   ELSE <<>>
        valid == SelectSeq(entries, good)
    IN  IF valid # <<>> THEN JsArr(valid)
        ELSE IF good(raw.image_url) THEN JsArr(<<raw.image_url>>)
        ELSE JsUndefined

\* The images stored by the fetch that has ended with a product.
StoredImages ==
    {homeProducts[i].images : i \in DOMAIN homeProducts}
    \cup (IF detailFetch.used # "none" THEN {product.images} ELSE {})

\* C13: on the full and on the narrow fetch path, the images stored for a
\* product are undefined or a non-empty list of strings that each hold a
\* non-whitespace character, namely the valid raw entries in their order,
\* or the image_url alone when there is no valid entry.
C13_NormalizerOutput ==
    \A x \in StoredImages :
        /\ WellFormedImages(x)
        /\ x = SaidImages(rawImages, IF homeFetch.used # "none"
                                     THEN homeFetch.used ELSE detailFetch.used)

\* The words by which each fetch takes an error for a missing column.
MissingColumn(m, words) == \E w \in words : Includes(m, w)
ListingWords == {<<"priority">>, <<"images">>, <<"column">>, <<"does", "not", "exist">>}
DetailWords == {<<"images">>, <<"column">>, <<"does", "not", "exist">>}

\* The fetch f, of loading flag busy, keeps to the fallback rule.
FallsBackOnce(f, busy, words) ==
    LET missing == f.plan.outcome = "error" /\ MissingColumn(f.plan.message, words)
    IN  /\ f.queries <= 2
        /\ f.pc = "done" => ~busy
        /\ f.pc = "fallback" => missing /\ f.queries = 2
        /\ (f.pc = "done" /\ missing) => f.queries = 2 /\ f.used # "full"
        /\ (f.pc = "done" /\ ~missing) => f.queries = 1 /\ f.used # "narrow"

\* C19: a first query that fails with a missing-column error is followed by
\* exactly one narrower query whose rows are used; after any other error
\* there is no second query; no fetch issues more than two queries, and
\* the loading flag is false once the fetch has ended.
C19_SchemaFallback ==
    /\ FallsBackOnce(homeFetch, homeLoading, ListingWords)
    /\ FallsBackOnce(detailFetch, detailLoading, DetailWords)
    /\ homeFetch.used = "narrow" =>
          /\ Len(homeProducts) = Len(catalogRows)
          /\ \A i \in DOMAIN homeProducts :
               /\ homeProducts[i].id = catalogRows[i].id
               /\ homeProducts[i].priority = JsNum(999)
    /\ detailFetch.used = "narrow" => product.id = detailFetch.id

\* The listing has ended on the rows of its narrow query, the second of two.
C19_Witness ==
    /\ homeFetch.pc = "done"
    /\ homeFetch.plan.outcome = "error"
    /\ homeFetch.used = "narrow"
    /\ homeFetch.queries = 2
    /\ homeProducts # <<>>
    /\ ~homeLoading

\* C14: getFirstImageUrl returns the first entry of its input, in input
\* order, that is a string ending, in any case, in an allowed image
\* extension, and null when there is none; what it returns is never a
\* video URL or an entry without an allowed extension.
C14_FirstImageUrl ==
    firstImageUrl # Unrendered =>
        LET allowed(e) ==
                /\ e.t = "string"
                /\ \E ext \in validImageExts :
                     /\ Len(e.v) >= Len(ext)
                     /\ \A k \in DOMAIN ext :
                          LowerChar(e.v[Len(e.v) - Len(ext) + k]) = ext[k]
            entries == IF imageData.t = "array" THEN imageData.v
                       ELSE IF imageData.t = "string"
                       THEN IF imageData.json.t = "array" THEN imageData.json.v
                            ELSE <<imageData>>
                       ELSE <<>>
            hits == {i \in DOMAIN entries : allowed(entries[i])}
        IN  /\ hits = {} => firstImageUrl = JsNull
            /\ hits # {} =>
                 firstImageUrl = entries[CHOOSE i \in hits : \A j \in hits : i <= j]
            /\ firstImageUrl # JsNull => allowed(firstImageUrl)

\* A line whose images start with a video has been rendered with its
\* second image, an upper-case .JPG.
C14_Witness ==
    /\ imageData.t = "array"
    /\ Len(imageData.v) = 2
    /\ imageData.v[1] = JsStr(<<"v", ".", "m", "p", "4">>)
    /\ firstImageUrl = JsStr(<<"b", ".", "J", "P", "G">>)

\* C21: a product fetch that fails (first query with an error that is not a
\* missing column, or with an exception, or a failing fallback query) shows
\* the error notice, navigates to the catalog, stores no product and leaves
\* loading false; a page opened without a product id navigates to the
\* catalog and issues no query.
C21_DetailLoadFailure ==
    [][/\ (detailFetch.pc \in {"first", "fallback"} /\ detailFetch'.pc = "done"
           /\ detailFetch'.used = "none")
          => /\ toast'.kind = "ProductLoadFailed"
             /\ detailFetch'.navigated
             /\ product' = product
             /\ ~detailLoading'
       /\ (detailFetch'.id = "" /\ detailFetch' # detailFetch)
          => /\ detailFetch'.navigated
             /\ detailFetch'.queries = 0]_vars

\* C25: every running handleAddToCart was started on a product in stock and
\* adds between 1 and that product's stock units, whatever loads, changes of
\* the displayed product and clicks came before.
C25_AddBoundedByStock ==
    \A a \in Slots :
        adds[a].pc # "idle" =>
            /\ adds[a].product.stock > 0
            /\ 1 <= adds[a].quantity
            /\ adds[a].quantity <= adds[a].product.stock

\* C26: for every raw product, the images the listing stores and the images
\* the product page stores are equal, on the full path and on the fallback
\* path: what either page has stored is what the other page's normalizer
\* makes of the same row.
C26_NormalizersAgree ==
    LET listing(raw) == storedImages(withImageUrl(parseImagesListing(raw.images),
                                                  raw.image_url))
        detail(raw) == storedImages(withImageUrl(parseImagesDetail(raw.images),
                                                 raw.image_url))
    IN  /\ homeFetch.used = "full" =>
              \A i \in DOMAIN homeProducts : homeProducts[i].images = detail(rawImages)
        /\ detailFetch.used = "full" => product.images = listing(rawImages)
        /\ homeFetch.used = "narrow" =>
              \A i \in DOMAIN homeProducts :
                  homeProducts[i].images = fallbackImages(rawImages.image_url)
        /\ detailFetch.used = "narrow" =>
              product.images = fallbackImages(rawImages.image_url)

\* The listing has stored, for images given as the JSON text of a number,
\* that text as the only image.
C26_Witness ==
    /\ homeFetch.used = "full"
    /\ rawImages.images = JsonStr(<<"7">>, JsNum(7))
    /\ homeProducts # <<>>
    /\ homeProducts[1].images = JsArr(<<rawImages.images>>)

\* C24: once the catalog has been loaded and a search has been issued, in
\* either order, the filtered set is the loaded products that match the
\* query issued last.
C24_ViewFollowsLatestQuery ==
    (homeFetch.pc = "done" /\ homeFetch.used # "none" /\ lastQuery.called)
        => filteredProducts = searchResult(homeProducts, lastQuery.query)

\* The rows of a products reply with the prices pr in place of the live ones.
Repriced(rows, pr) == [i \in DOMAIN rows |-> [rows[i] EXCEPT !.price = pr[rows[i].id]]]

\* C23: a checkout that got its products reply would have decided the same,
\* and built the same OrderItem rows, had the reply carried any other live
\* prices; the total it persists is the cart's snapshot total plus the
\* delivery charge, and every persisted OrderItem price is the add-time
\* price of its cart line.
C23_LivePriceIgnored ==
    /\ [](\A r \in orderItems : r.price = ToFixed2(SnapshotPrice(r.product_id)))
    /\ [][\A s \in Slots :
            LET sub == subs[s]
                rows == lastResp'.data
            IN
            /\ (Steps(s) /\ sub.pc = "awaitProducts" /\ Reply("products", "ok")) =>
                 /\ subs'[s].pc = "awaitOrder"
                      <=> (missingItems(sub.items, rows) = <<>>
                           /\ outOfStockItems(sub.items, rows) = <<>>)
                 /\ \A pr \in [Ids -> {1, 2 * Unit, 99 * Unit}] :
                      LET alt == Repriced(rows, pr) IN
                      /\ missingItems(sub.items, alt) = missingItems(sub.items, rows)
                      /\ outOfStockItems(sub.items, alt)
                           = outOfStockItems(sub.items, rows)
                      /\ orderItemsRows(sub.items, alt, 1)
                           = orderItemsRows(sub.items, rows, 1)
            /\ (Steps(s) /\ sub.pc = "awaitOrder" /\ Reply("orders", "ok")) =>
                 \E o \in orders' \ orders :
                    o.total_amount
                      = ToFixed2(totalPrice(sub.items) + sub.deliveryCharge)]_vars

\* An order of p1 has been placed at the cart's price while the live price
\* of p1, returned by the products query, is another one.
C23_Witness ==
    /\ lastResp.call = "order_items"
    /\ lastResp.outcome = "ok"
    /\ LivePrice("p1") # SnapshotPrice("p1")
    /\ \E r \in orderItems :
         r.product_id = "p1" /\ r.price = ToFixed2(SnapshotPrice("p1"))

\* C22: every OrderItem row, at the moment it is inserted, is of a product
\* that exists and has a quantity of at most the live stock of that product.
C22_InsertWithinLiveStock ==
    [][\A r \in orderItems' \ orderItems :
          /\ products[r.product_id].exists
          /\ r.quantity <= products[r.product_id].stock]_vars

====
